---- MODULE Spec2Model ----
(***************************************************************************)
(* Model of app.py (picking-list processor): text extraction of the order  *)
(* section (extract_picking_data), the code/description splitter           *)
(* (split_cod_viejo_articulo), the consolidator (process_picking_data)     *)
(* and the splice decision of main / merge_with_packing.                   *)
(*                                                                         *)
(* Texts are TLA+ strings; a character is a string of length one.  Python  *)
(* positions are 0-based, positions here are 1-based.  A float is kept as  *)
(* an exact decimal: cantidad, the float of a run of digits, as its whole  *)
(* number, stock as num / 10^scale.  None is the empty tuple, a found page *)
(* index the one-element tuple.                                            *)
(***************************************************************************)
EXTENDS Integers, Sequences, FiniteSets, TLC

\* ------------------------------------------------------------------------
\* Characters and character classes of Python's re
\* ------------------------------------------------------------------------

Ch(s, i) == SubSeq(s, i, i)

CharsOf(s) == {Ch(s, i) : i \in 1..Len(s)}

UpperChars == "ABCDEFGHIJKLMNOPQRSTUVWXYZ"

LowerChars == "abcdefghijklmnopqrstuvwxyz"

\* [A-Z]
Upper == CharsOf(UpperChars)

\* [a-z]
Lower == CharsOf(LowerChars)

\* \d (the ASCII digits are the only digits of the modelled texts)
Digit == CharsOf("0123456789")

\* \s, and the characters str.strip() removes
Space == {" ", "\t", "\n", "\r"}

\* [a-záéíóúñ] of line 39
LowerAccent == Lower \cup {"á", "é", "í", "ó", "ú", "ñ"}

\* Every character of the modelled texts, in ascending code-point order.
CodePointOrder == "\t\n\r *,-./0123456789:ABCDEFGHIJKLMNOPQRSTUVWXYZabcdefghijklmnopqrstuvwxyz°ÁÉÍÑÓÚáéíñóú"

\* The rank of a character in code-point order (Python compares str by code point).
Ord(c) == CHOOSE i \in 1..Len(CodePointOrder) : Ch(CodePointOrder, i) = c

\* ------------------------------------------------------------------------
\* str methods
\* ------------------------------------------------------------------------

\* str.strip(): from the first to the last character that is not white space
Strip(s) ==
    LET kept == {i \in 1..Len(s) : Ch(s, i) \notin Space}
    IN  IF kept = {} THEN ""
        ELSE SubSeq(s, CHOOSE i \in kept : \A j \in kept : i <= j,
                       CHOOSE i \in kept : \A j \in kept : i >= j)

\* s[i:i+len(sub)] == sub
StartsAt(s, sub, i) == i + Len(sub) - 1 <= Len(s) /\ SubSeq(s, i, i + Len(sub) - 1) = sub

\* sub in s
Contains(s, sub) == \E i \in 1..(Len(s) + 1) : StartsAt(s, sub, i)

\* s.endswith(sub)
EndsWith(s, sub) == Len(s) >= Len(sub) /\ StartsAt(s, sub, Len(s) - Len(sub) + 1)

\* s.find(sub, from): where sub first occurs at or after from; 0 if nowhere
Find(s, sub, from) ==
    LET at == {i \in from..Len(s) : StartsAt(s, sub, i)}
    IN  IF at = {} THEN 0 ELSE CHOOSE i \in at : \A j \in at : i <= j

\* str.split(sep): the pieces between the non-overlapping occurrences of sep, left to right
RECURSIVE SplitFrom(_, _, _)
SplitFrom(s, sep, from) ==
    LET i == Find(s, sep, from)
    IN  IF i = 0 THEN <<SubSeq(s, from, Len(s))>>
        ELSE <<SubSeq(s, from, i - 1)>> \o SplitFrom(s, sep, i + Len(sep))

Split(s, sep) == SplitFrom(s, sep, 1)

\* str.upper() on one character
UpperOf(c) ==
    IF c \in Lower THEN Ch(UpperChars, CHOOSE i \in 1..Len(LowerChars) : Ch(LowerChars, i) = c)
    ELSE CASE c = "á" -> "Á" [] c = "é" -> "É" [] c = "í" -> "Í" [] c = "ó" -> "Ó"
           [] c = "ú" -> "Ú" [] c = "ñ" -> "Ñ" [] OTHER -> c

\* str.upper(), half by half
RECURSIVE ToUpper(_)
ToUpper(s) ==
    IF Len(s) = 0 THEN ""
    ELSE IF Len(s) = 1 THEN UpperOf(s)
    ELSE ToUpper(SubSeq(s, 1, Len(s) \div 2)) \o ToUpper(SubSeq(s, Len(s) \div 2 + 1, Len(s)))

\* str.replace(old, new) for a one-character old
RECURSIVE Replace(_, _, _)
Replace(s, old, new) ==
    IF s = "" THEN ""
    ELSE (IF Ch(s, 1) = old THEN new ELSE Ch(s, 1)) \o Replace(SubSeq(s, 2, Len(s)), old, new)

\* a < b on str: lexicographic by code point
RECURSIVE StrLess(_, _)
StrLess(a, b) ==
    IF b = "" THEN FALSE
    ELSE IF a = "" THEN TRUE
    ELSE IF Ch(a, 1) = Ch(b, 1) THEN StrLess(SubSeq(a, 2, Len(a)), SubSeq(b, 2, Len(b)))
    ELSE Ord(Ch(a, 1)) < Ord(Ch(b, 1))

\* int() of a string of digits
RECURSIVE ParseInt(_)
ParseInt(s) ==
    IF s = "" THEN 0
    ELSE 10 * ParseInt(SubSeq(s, 1, Len(s) - 1))
         + (CHOOSE d \in 0..9 : Ch("0123456789", d + 1) = Ch(s, Len(s)))

\* ------------------------------------------------------------------------
\* Python's re: a pattern is a sequence of items, each a character class
\* with a repetition (greedy or lazy) or the anchor $.  The matcher tries
\* the repetition counts of an item in the engine's order (greedy: most
\* first, lazy: fewest first) and takes the first that lets the rest match.
\* ------------------------------------------------------------------------

\* cls{min,max}; max = -1 is "no limit"; neg: the class is complemented
Item(cls, neg, min, max, lazy, grp) ==
    [kind |-> "cls", cls |-> cls, neg |-> neg, min |-> min, max |-> max, lazy |-> lazy, grp |-> grp]

One(cls, grp) == Item(cls, FALSE, 1, 1, FALSE, grp)
Opt(cls, grp) == Item(cls, FALSE, 0, 1, FALSE, grp)
Star(cls, grp) == Item(cls, FALSE, 0, -1, FALSE, grp)
Plus(cls, grp) == Item(cls, FALSE, 1, -1, FALSE, grp)
Rep(cls, min, max, grp) == Item(cls, FALSE, min, max, FALSE, grp)

\* . is every character but the newline
DotPlusLazy(grp) == Item({"\n"}, TRUE, 1, -1, TRUE, grp)
DotStar(grp) == Item({"\n"}, TRUE, 0, -1, FALSE, grp)

\* $ (no MULTILINE): the end of the text, or just before a final newline
EndAnchor == [kind |-> "eos", cls |-> {}, neg |-> FALSE, min |-> 0, max |-> 0, lazy |-> FALSE, grp |-> 0]

InClass(c, it) == (c \in it.cls) # it.neg

\* how many characters from pos on the item can take
RunLen(s, pos, it) ==
    LET avail == Len(s) - pos + 1
        limit == IF it.max >= 0 /\ it.max < avail THEN it.max ELSE avail
    IN  CHOOSE n \in 0..limit :
            /\ n = limit \/ ~InClass(Ch(s, pos + n), it)
            /\ \A i \in 0..(n - 1) : InClass(Ch(s, pos + i), it)

NoMatch == <<0>>

\* The positions after each of the items k.. of pat, matched from pos on; NoMatch if
\* none.  The engine tries the repetition counts of an item in order (greedy: from the
\* most down, lazy: from the fewest up) and keeps the first that lets the rest match.
RECURSIVE MatchItems(_, _, _, _)
RECURSIVE TryGreedy(_, _, _, _, _)
MatchItems(pat, k, s, pos) ==
    IF k > Len(pat) THEN <<>>
    ELSE IF pat[k].kind = "eos"
         THEN IF pos = Len(s) + 1 \/ (pos = Len(s) /\ Ch(s, pos) = "\n")
              THEN LET rest == MatchItems(pat, k + 1, s, pos)
                   IN  IF rest = NoMatch THEN NoMatch ELSE <<pos>> \o rest
              ELSE NoMatch
         ELSE LET hi == RunLen(s, pos, pat[k])
                  Good(c) == MatchItems(pat, k + 1, s, pos + c) # NoMatch
                  fewest == CHOOSE c \in pat[k].min..hi : Good(c) /\ \A d \in pat[k].min..(c - 1) : ~Good(d)
              IN  IF hi < pat[k].min THEN NoMatch
                  ELSE IF ~pat[k].lazy THEN TryGreedy(pat, k, s, pos, hi)
                  ELSE IF \E c \in pat[k].min..hi : Good(c)
                       THEN <<pos + fewest>> \o MatchItems(pat, k + 1, s, pos + fewest)
                       ELSE NoMatch

\* A greedy item with c repetitions, then with fewer
TryGreedy(pat, k, s, pos, c) ==
    IF c < pat[k].min THEN NoMatch
    ELSE LET rest == MatchItems(pat, k + 1, s, pos + c)
         IN  IF rest # NoMatch THEN <<pos + c>> \o rest
             ELSE TryGreedy(pat, k, s, pos, c - 1)

\* re.match at one position: <<pos>> and the positions after each item, or NoMatch
MatchAt(pat, s, pos) ==
    LET r == MatchItems(pat, 1, s, pos)
    IN  IF r = NoMatch THEN NoMatch ELSE <<pos>> \o r

\* match.start()
MatchStart(m) == m[1]

\* re.search: the match at the leftmost position that has one
Search(pat, s) ==
    LET found == {m \in {MatchAt(pat, s, pos) : pos \in 1..(Len(s) + 1)} : m # NoMatch}
    IN  IF found = {} THEN NoMatch
        ELSE CHOOSE m \in found : \A n \in found : MatchStart(m) <= MatchStart(n)

\* match.group(g) of a match m of pat in s: m[k] is where item k starts, m[k + 1] where it ends
Group(pat, s, m, g) ==
    LET ks == {k \in 1..Len(pat) : pat[k].grp = g}
        first == CHOOSE k \in ks : \A j \in ks : k <= j
        last == CHOOSE k \in ks : \A j \in ks : k >= j
    IN  SubSeq(s, m[first], m[last + 1] - 1)

\* ------------------------------------------------------------------------
\* split_cod_viejo_articulo (lines 26-54)
\* ------------------------------------------------------------------------

\* r'[A-Z][a-záéíóúñ]' (line 39)
UpperLowerPattern == <<One(Upper, 0), One(LowerAccent, 0)>>

\* r'^([A-Z0-9]*[A-Z]{1,2})(\d{4}[/\.\-].*)$' (line 46); ^ is MatchAt position 1
FvCodePattern ==
    <<Star(Upper \cup Digit, 1), Rep(Upper, 1, 2, 1),
      Rep(Digit, 4, 4, 2), One({"/", ".", "-"}, 2), DotStar(2), EndAnchor>>

\* Caso 1 (lines 39-43): where the first upper+lower pair starts, when past the first character
CaseOneSplit(cod_viejo_raw, articulo_raw, match) ==
    LET cod_viejo == SubSeq(cod_viejo_raw, 1, MatchStart(match) - 1)
        articulo == SubSeq(cod_viejo_raw, MatchStart(match), Len(cod_viejo_raw))
                    \o (IF articulo_raw # "" THEN " " \o articulo_raw ELSE "")
    IN  <<Strip(cod_viejo), Strip(articulo)>>

\* The pair <<cod_viejo, articulo>> the function returns.
split_cod_viejo_articulo(cod_viejo_in, articulo_in) ==
    LET cod_viejo_raw == Strip(cod_viejo_in)
        articulo_raw == Strip(articulo_in)
        full_text == cod_viejo_raw \o articulo_raw
        match == Search(UpperLowerPattern, cod_viejo_raw)
        match2 == MatchAt(FvCodePattern, full_text, 1)
    IN  IF match # NoMatch /\ MatchStart(match) > 1
        THEN CaseOneSplit(cod_viejo_raw, articulo_raw, match)
        ELSE IF match2 # NoMatch
        THEN <<Group(FvCodePattern, full_text, match2, 1), Group(FvCodePattern, full_text, match2, 2)>>
        ELSE IF EndsWith(cod_viejo_raw, "**")
        THEN <<Strip(SubSeq(cod_viejo_raw, 1, Len(cod_viejo_raw) - 2)), "** " \o articulo_raw>>
        ELSE <<cod_viejo_raw, articulo_raw>>

\* ------------------------------------------------------------------------
\* Numbers (lines 121, 130-134)
\* ------------------------------------------------------------------------

\* How often character c occurs in s
RECURSIVE CountChar(_, _)
CountChar(s, c) ==
    IF s = "" THEN 0 ELSE (IF Ch(s, 1) = c THEN 1 ELSE 0) + CountChar(SubSeq(s, 2, Len(s)), c)

\* Whether float(t) returns, for t of digits, '.' and a leading '-': it raises
\* ValueError unless t holds a digit and at most one '.'.
FloatOk(t) ==
    LET body == IF Len(t) > 0 /\ Ch(t, 1) = "-" THEN SubSeq(t, 2, Len(t)) ELSE t
    IN  /\ \A i \in 1..Len(body) : Ch(body, i) \in Digit \cup {"."}
        /\ CountChar(body, ".") <= 1
        /\ \E i \in 1..Len(body) : Ch(body, i) \in Digit

\* num / 10^scale without trailing decimal zeros: equal floats, equal records
RECURSIVE Normalise(_, _)
Normalise(num, scale) ==
    IF scale > 0 /\ num % 10 = 0 THEN Normalise(num \div 10, scale - 1)
    ELSE [num |-> num, scale |-> scale]

\* float(t) for a t with FloatOk(t), as the decimal num / 10^scale
FloatOf(t) ==
    LET neg == Len(t) > 0 /\ Ch(t, 1) = "-"
        body == IF neg THEN SubSeq(t, 2, Len(t)) ELSE t
        dot == IF Contains(body, ".") THEN CHOOSE i \in 1..Len(body) : Ch(body, i) = "." ELSE Len(body) + 1
        digits == SubSeq(body, 1, dot - 1) \o SubSeq(body, dot + 1, Len(body))
        mag == Normalise(ParseInt(digits), Len(body) - dot + (IF dot > Len(body) THEN 1 ELSE 0))
    IN  [num |-> IF neg THEN -mag.num ELSE mag.num, scale |-> mag.scale]

\* stock_str of line 133
StockStr(text) == Replace(Replace(text, ".", ""), ",", ".")

\* ------------------------------------------------------------------------
\* extract_picking_data: the patterns and the per-page, per-segment steps
\* ------------------------------------------------------------------------

\* The pattern of lines 115-116:
\* (\d{1,3})\s*([A-Z]{2}[A-Z0-9]+)\s+([A-Z0-9][A-Za-z0-9]*)\s*(.+?)\s+(\d+)\s+(-?[\d.,]+)\s*$
SegmentPattern ==
    <<Rep(Digit, 1, 3, 1), Star(Space, 0),
      Rep(Upper, 2, 2, 2), Plus(Upper \cup Digit, 2), Plus(Space, 0),
      One(Upper \cup Digit, 3), Star(Upper \cup Lower \cup Digit, 3), Star(Space, 0),
      DotPlusLazy(4), Plus(Space, 0),
      Plus(Digit, 5), Plus(Space, 0),
      Opt({"-"}, 6), Plus(Digit \cup {".", ","}, 6), Star(Space, 0), EndAnchor>>

\* a literal text as a pattern
Lit(s) == [i \in 1..Len(s) |-> One({Ch(s, i)}, 0)]

\* r'N[°º]:\s*(\d+)' (line 81)
NumeroPattern == <<One({"N"}, 0), One({"°", "º"}, 0), One({":"}, 0), Star(Space, 0), Plus(Digit, 1)>>

\* r'FECHA:\s*(\d{1,2}/\d{1,2}/\d{4})' (line 84)
FechaPattern ==
    Lit("FECHA:") \o <<Star(Space, 0), Rep(Digit, 1, 2, 1), One({"/"}, 1), Rep(Digit, 1, 2, 1),
                       One({"/"}, 1), Rep(Digit, 4, 4, 1)>>

\* r'HORA:\s*(\d{2}:\d{2}:\d{2})' (line 87)
HoraPattern ==
    Lit("HORA:") \o <<Star(Space, 0), Rep(Digit, 2, 2, 1), One({":"}, 1), Rep(Digit, 2, 2, 1),
                      One({":"}, 1), Rep(Digit, 2, 2, 1)>>

\* The dict with key k set when pat is found in text (lines 81-89)
HeaderField(k, pat, text) ==
    LET m == Search(pat, text)
    IN  IF m = NoMatch THEN <<>> ELSE k :> Group(pat, text, m, 1)

\* header_info after page 0 (lines 80-89)
ExtractHeader(text) ==
    HeaderField("numero", NumeroPattern, text) @@ HeaderField("fecha", FechaPattern, text)
        @@ HeaderField("hora", HoraPattern, text)

\* The words of lines 98-100
HeaderWords ==
    {"PICKING LIST", "N°:", "FECHA:", "HORA:", "ESTADO:", "COD VIEJO", "PÁGINA", "PREPARO:",
     "CONTROLO:", "COD COD", "COMIENZO", "FINALIZADO", "ARTICULO", "ALMACEN"}

\* Saltar líneas de header/footer (line 97)
IsHeaderLine(line) == \E w \in HeaderWords : Contains(ToUpper(line), w)

\* The loop of lines 92-103 over the lines from the i-th on
RECURSIVE AccumulateLines(_, _, _)
AccumulateLines(lines, i, acc) ==
    IF i > Len(lines) THEN acc
    ELSE LET line == Strip(lines[i])
         IN  IF line = "" \/ IsHeaderLine(line) THEN AccumulateLines(lines, i + 1, acc)
             ELSE AccumulateLines(lines, i + 1, acc \o " " \o line)

\* IsPackingStart with the second marker phrase forgotten
IsPackingStartOneMarker(text) == Contains(text, "Codigo Cliente")

\* Detectar inicio de packing list (line 75)
IsPackingStart(text) == Contains(text, "Codigo Cliente") /\ Contains(text, "LN")

\* The row of lines 121-144 for a match of SegmentPattern in seg
RowOf(seg, match) ==
    LET pair == split_cod_viejo_articulo(Group(SegmentPattern, seg, match, 3),
                                         Strip(Group(SegmentPattern, seg, match, 4)))
    IN  [linea_original |-> ParseInt(Group(SegmentPattern, seg, match, 1)),
         codigo |-> Group(SegmentPattern, seg, match, 2),
         cod_viejo |-> pair[1],
         articulo |-> pair[2],
         cantidad |-> ParseInt(Group(SegmentPattern, seg, match, 5)),
         stock |-> FloatOf(StockStr(Group(SegmentPattern, seg, match, 6))),
         almacen |-> "RIESTRA"]

\* ------------------------------------------------------------------------
\* process_picking_data (lines 149-164)
\* ------------------------------------------------------------------------

\* The least string of a non-empty set
MinKey(keys) == CHOOSE k \in keys : \A j \in keys : j = k \/ StrLess(k, j)

\* groupby('cod_viejo') sorts the group keys (sort=True is the default)
RECURSIVE GroupKeys(_)
GroupKeys(keys) ==
    IF keys = {} THEN <<>> ELSE <<MinKey(keys)>> \o GroupKeys(keys \ {MinKey(keys)})

\* FirstRow with 'last' for 'first'
LastRow(rows, key) ==
    rows[CHOOSE i \in 1..Len(rows) : rows[i].cod_viejo = key /\ \A j \in (i + 1)..Len(rows) : rows[j].cod_viejo # key]

\* 'first': the values of the first row of the group, in the order of the rows
FirstRow(rows, key) ==
    rows[CHOOSE i \in 1..Len(rows) : rows[i].cod_viejo = key /\ \A j \in 1..(i - 1) : rows[j].cod_viejo # key]

\* SumCantidad with 'first' for 'sum'
FirstCantidad(rows, key) == FirstRow(rows, key).cantidad

\* 'sum' of cantidad over the rows of the group
RECURSIVE SumCantidad(_, _)
SumCantidad(rows, key) ==
    IF rows = <<>> THEN 0
    ELSE (IF Head(rows).cod_viejo = key THEN Head(rows).cantidad ELSE 0) + SumCantidad(Tail(rows), key)

\* One row of the grouped frame (lines 155-160)
Aggregate(rows, key) ==
    LET first == FirstRow(rows, key)
    IN  [cod_viejo |-> key, codigo |-> first.codigo, articulo |-> first.articulo,
         cantidad |-> SumCantidad(rows, key), stock |-> first.stock, almacen |-> first.almacen]

\* SortValues with ascending=False
RECURSIVE SortValuesDescending(_)
SortValuesDescending(recs) ==
    IF recs = <<>> THEN <<>>
    ELSE LET rest == SortValuesDescending(Tail(recs))
             n == Cardinality({i \in 1..Len(rest) : StrLess(Head(recs).cod_viejo, rest[i].cod_viejo)})
         IN  SubSeq(rest, 1, n) \o <<Head(recs)>> \o SubSeq(rest, n + 1, Len(rest))

\* sort_values('cod_viejo') (line 161): ascending, by insertion
RECURSIVE SortValues(_)
SortValues(recs) ==
    IF recs = <<>> THEN <<>>
    ELSE LET rest == SortValues(Tail(recs))
             n == Cardinality({i \in 1..Len(rest) : StrLess(rest[i].cod_viejo, Head(recs).cod_viejo)})
         IN  SubSeq(rest, 1, n) \o <<Head(recs)>> \o SubSeq(rest, n + 1, Len(rest))

\* Renumber with range(len(grouped)): the numbering starts at 0
RenumberFromZero(grouped) ==
    [i \in 1..Len(grouped) |->
        [linea |-> i - 1, codigo |-> grouped[i].codigo, cod_viejo |-> grouped[i].cod_viejo,
         articulo |-> grouped[i].articulo, cantidad |-> grouped[i].cantidad,
         stock |-> grouped[i].stock, almacen |-> grouped[i].almacen]]

\* grouped['linea'] = range(1, len(grouped) + 1) and the column order of line 164
Renumber(grouped) ==
    [i \in 1..Len(grouped) |->
        [linea |-> i, codigo |-> grouped[i].codigo, cod_viejo |-> grouped[i].cod_viejo,
         articulo |-> grouped[i].articulo, cantidad |-> grouped[i].cantidad,
         stock |-> grouped[i].stock, almacen |-> grouped[i].almacen]]

process_picking_data(rows) ==
    IF rows = <<>> THEN <<>>
    ELSE LET keys == GroupKeys({rows[i].cod_viejo : i \in 1..Len(rows)})
             grouped == SortValues([i \in 1..Len(keys) |-> Aggregate(rows, keys[i])])
         IN  Renumber(grouped)

\* ------------------------------------------------------------------------
\* merge_with_packing (lines 279-297) and the truth value main tests
\* ------------------------------------------------------------------------

\* None
None == <<>>

\* bool(packing_start) of lines 335 and 373: None and 0 are false
Truthy(packing_start) == packing_start # None /\ packing_start[1] # 0

\* PackingRange that starts one page late
PackingRangeSkipFirst(start, n) == [i \in 1..(IF n > start + 1 THEN n - start - 1 ELSE 0) |-> start + i]

\* range(packing_start_page, len(original_reader.pages)): the 0-based pages appended
PackingRange(start, n) == [i \in 1..(IF n > start THEN n - start ELSE 0) |-> start + i - 1]

\* The merged document: the generated picking pages, then the original's packing pages
merge_with_packing(picking_buffer, original_pdf, start) ==
    [picking |-> picking_buffer, packing |-> PackingRange(start, Len(original_pdf))]

\* header_info.get('numero', 'procesado') of lines 384, 396 and 403
NumeroOr(info) == IF "numero" \in DOMAIN info THEN info["numero"] ELSE "procesado"

\* ------------------------------------------------------------------------
\* The documents the model is run on
\* ------------------------------------------------------------------------

\* Pages of a document, at most
MaxPages == 2

\* Rows handed to process_picking_data on its own, at most
MaxRows == 3

\* The candidate record lines: the code+description remainder, the quantity text, the
\* stock text and whether the line ends with its warehouse code.  wellFormed: the line
\* has every field of the order table, with whole-number quantity and a stock number.
Candidates ==
    [good     |-> [rem |-> "X1 Desc", qty |-> "5", stock |-> "10", term |-> TRUE, wellFormed |-> TRUE],
     thousand |-> [rem |-> "AB123 Codo", qty |-> "5", stock |-> "3.228,50", term |-> TRUE, wellFormed |-> TRUE],
     fvcode   |-> [rem |-> "RPFV0521CB0416/15.6-D", qty |-> "1", stock |-> "-5", term |-> TRUE, wellFormed |-> TRUE],
     glued    |-> [rem |-> "FVMB1CR181Grifería", qty |-> "2", stock |-> "10", term |-> TRUE, wellFormed |-> TRUE],
     decimal  |-> [rem |-> "AB123 Codo", qty |-> "3,50", stock |-> "20", term |-> TRUE, wellFormed |-> FALSE],
     noterm   |-> [rem |-> "Y2 Tee", qty |-> "7", stock |-> "4", term |-> FALSE, wellFormed |-> FALSE],
     badstock |-> [rem |-> "X1 Desc", qty |-> "2", stock |-> "1,2,3", term |-> TRUE, wellFormed |-> FALSE],
     nostock  |-> [rem |-> "Z9 Llave", qty |-> "6", stock |-> "", term |-> TRUE, wellFormed |-> FALSE]]

CandidateNames == DOMAIN Candidates

\* A page is an order page, a packing page (it carries both marker phrases) or an order
\* page that carries only the first marker phrase; cand names its record line, if any.
PageKinds ==
    [kind : {"order"}, cand : CandidateNames \cup {"none"}]
        \cup [kind : {"packing"}, cand : {"none", "good"}]
        \cup [kind : {"half"}, cand : {"none"}]

Documents == UNION {[1..n -> PageKinds] : n \in 1..MaxPages}

\* The sequence number and item code of the record line of the page at (0-based) index i
LineNumber(i) == Ch("123456789", i + 1)

ItemCode(i) == "AB10" \o LineNumber(i)

\* The record line of a page
CandidateLine(i, name) ==
    LET c == Candidates[name]
    IN  LineNumber(i) \o " " \o ItemCode(i) \o " " \o c.rem \o " " \o c.qty
            \o (IF c.stock = "" THEN "" ELSE " " \o c.stock)
            \o (IF c.term THEN " RIESTRA" ELSE "")

\* The text pdfplumber extracts from a page
PageText(i, page) ==
    (IF page.kind = "packing" THEN "Codigo Cliente Razon Social LN Bultos\n"
     ELSE IF page.kind = "half" THEN "Codigo Cliente 77\n"
     ELSE IF i = 0 THEN "Picking List N°: 12\nFECHA: 4/11/2026 HORA: 10:30:00 Estado: Pendiente\n"
     ELSE "Página " \o LineNumber(i) \o "\n")
    \o (IF page.kind = "order" THEN "Cod Cod Viejo Articulo Cant Stock Almacen\n\n" ELSE "")
    \o (IF page.cand = "none" THEN "" ELSE "  " \o CandidateLine(i, page.cand) \o " \n")

Render(d) == [i \in 1..Len(d) |-> PageText(i - 1, d[i])]

\* The rows process_picking_data is run on by itself
RowKeys == {"", "AB12", "AB123", "Z9", "a1"}

RowVariants == {1, 2}

InputRow(key, v) ==
    [linea_original |-> v, codigo |-> ItemCode(v - 1), cod_viejo |-> key,
     articulo |-> "Art " \o LineNumber(v - 1), cantidad |-> v,
     stock |-> FloatOf(LineNumber(v - 1)), almacen |-> "RIESTRA"]

InputRows == {InputRow(k, v) : k \in RowKeys, v \in RowVariants}

RowLists == UNION {[1..n -> InputRows] : n \in 0..MaxRows}

\* ------------------------------------------------------------------------
\* State
\* ------------------------------------------------------------------------

VARIABLES
    doc,                 \* the document's description (input)
    pages,               \* pdf.pages: the text of each page
    pc,                  \* where the run is
    page_num,            \* the page the loop of line 71 is at
    accumulated_text,
    header_info,
    packing_start_page,
    segments,            \* line 106
    seg_idx,             \* the segment the loop of line 108 is at
    all_rows,
    processed_data,
    output               \* what main hands to the user

vars == <<doc, pages, pc, page_num, accumulated_text, header_info, packing_start_page,
          segments, seg_idx, all_rows, processed_data, output>>

NoOutput == [kind |-> "none", picking |-> <<>>, packing |-> <<>>, name |-> ""]

\* Lines 64-69
Locals ==
    /\ page_num = 0
    /\ accumulated_text = ""
    /\ header_info = <<>>
    /\ packing_start_page = None
    /\ segments = <<>>
    /\ seg_idx = 1
    /\ processed_data = <<>>
    /\ output = NoOutput

\* main with an uploaded file (lines 307-317)
Init ==
    /\ doc \in Documents
    /\ pages = Render(doc)
    /\ pc = "scan"
    /\ all_rows = <<>>
    /\ Locals

\* One pass of the loop of lines 71-103
ScanPage ==
    /\ pc = "scan"
    /\ page_num < Len(pages)
    /\ LET text == pages[page_num + 1]
       IN  IF IsPackingStart(text)
           THEN /\ packing_start_page' = <<page_num>>
                /\ pc' = "split"
                /\ UNCHANGED <<page_num, accumulated_text, header_info>>
           ELSE /\ header_info' = IF page_num = 0 THEN ExtractHeader(text) ELSE header_info
                /\ accumulated_text' = AccumulateLines(Split(text, "\n"), 1, accumulated_text)
                /\ page_num' = page_num + 1
                /\ pc' = IF page_num + 1 = Len(pages) THEN "split" ELSE "scan"
                /\ UNCHANGED packing_start_page
    /\ UNCHANGED <<doc, pages, segments, seg_idx, all_rows, processed_data, output>>

\* Line 106
SplitSegments ==
    /\ pc = "split"
    /\ segments' = Split(accumulated_text, "RIESTRA")
    /\ seg_idx' = 1
    /\ pc' = "parse"
    /\ UNCHANGED <<doc, pages, page_num, accumulated_text, header_info, packing_start_page,
                   all_rows, processed_data, output>>

\* One pass of the loop of lines 108-144; float() of line 134 may raise ValueError,
\* which nothing catches
ParseSegment ==
    /\ pc = "parse"
    /\ seg_idx <= Len(segments)
    /\ LET seg == Strip(segments[seg_idx])
           match == Search(SegmentPattern, seg)
           next == IF seg_idx = Len(segments) THEN "returned" ELSE "parse"
       IN  IF seg = "" \/ match = NoMatch
           THEN /\ pc' = next
                /\ seg_idx' = seg_idx + 1
                /\ all_rows' = all_rows
           ELSE IF ~FloatOk(StockStr(Group(SegmentPattern, seg, match, 6)))
           THEN /\ pc' = "raised"
                /\ UNCHANGED <<seg_idx, all_rows>>
           ELSE /\ pc' = next
                /\ seg_idx' = seg_idx + 1
                /\ all_rows' = Append(all_rows, RowOf(seg, match))
    /\ UNCHANGED <<doc, pages, page_num, accumulated_text, header_info, packing_start_page,
                   segments, processed_data, output>>

\* Lines 317-321
CheckRows ==
    /\ pc = "returned"
    /\ IF all_rows = <<>>
       THEN /\ output' = [kind |-> "error", picking |-> <<>>, packing |-> <<>>, name |-> ""]
            /\ pc' = "done"
       ELSE /\ output' = output
            /\ pc' = "process"
    /\ UNCHANGED <<doc, pages, page_num, accumulated_text, header_info, packing_start_page,
                   segments, seg_idx, all_rows, processed_data>>

\* Line 326
Process ==
    /\ pc = "process"
    /\ processed_data' = process_picking_data(all_rows)
    /\ pc' = "generate"
    /\ UNCHANGED <<doc, pages, page_num, accumulated_text, header_info, packing_start_page,
                   segments, seg_idx, all_rows, output>>

\* Lines 369-407: the picking pages are generated from processed_data; they are merged
\* with the packing pages when packing_start is true
Deliver ==
    /\ pc = "generate"
    /\ output' = IF Truthy(packing_start_page)
                 THEN LET merged == merge_with_packing(processed_data, pages, packing_start_page[1])
                      IN  [kind |-> "merged", picking |-> merged.picking, packing |-> merged.packing,
                           name |-> "picking_" \o NumeroOr(header_info) \o "_completo.pdf"]
                 ELSE [kind |-> "picking", picking |-> processed_data, packing |-> <<>>,
                       name |-> "picking_" \o NumeroOr(header_info) \o "_ordenado.pdf"]
    /\ pc' = "done"
    /\ UNCHANGED <<doc, pages, page_num, accumulated_text, header_info, packing_start_page,
                   segments, seg_idx, all_rows, processed_data>>

Next == ScanPage \/ SplitSegments \/ ParseSegment \/ CheckRows \/ Process \/ Deliver

Spec == Init /\ [][Next]_vars

\* process_picking_data called on a list of rows
InitConsolidate ==
    /\ doc = <<>>
    /\ pages = <<>>
    /\ pc = "rows"
    /\ all_rows \in RowLists
    /\ Locals

Consolidate ==
    /\ pc = "rows"
    /\ processed_data' = process_picking_data(all_rows)
    /\ pc' = "consolidated"
    /\ UNCHANGED <<doc, pages, page_num, accumulated_text, header_info, packing_start_page,
                   segments, seg_idx, all_rows, output>>

NextConsolidate == Consolidate

SpecConsolidate == InitConsolidate /\ [][NextConsolidate]_vars

\* ------------------------------------------------------------------------
\* Properties of process_picking_data (under SpecConsolidate)
\* ------------------------------------------------------------------------

Consolidated == pc = "consolidated"

InputKeys == {all_rows[i].cod_viejo : i \in 1..Len(all_rows)}

\* The sum of cantidad over the records of recs whose index is in idx
RECURSIVE QuantityOver(_, _)
QuantityOver(recs, idx) ==
    IF idx = {} THEN 0
    ELSE LET i == CHOOSE j \in idx : TRUE
         IN  recs[i].cantidad + QuantityOver(recs, idx \ {i})

\* The code-point order of the keys of RowKeys, written out
KeyOrder == <<"", "AB12", "AB123", "Z9", "a1">>

KeyRank(key) == CHOOSE i \in 1..Len(KeyOrder) : KeyOrder[i] = key

\* The index of the first input row with the key
FirstIndex(key) == CHOOSE i \in 1..Len(all_rows) : all_rows[i].cod_viejo = key /\ \A j \in 1..(i - 1) : all_rows[j].cod_viejo # key

\* C1: the consolidated quantities add up to the input quantities, and each
\* consolidated record's quantity is the sum of the input quantities with its cod_viejo.
C1_Conservation ==
    Consolidated =>
        /\ QuantityOver(processed_data, DOMAIN processed_data) = QuantityOver(all_rows, DOMAIN all_rows)
        /\ \A i \in DOMAIN processed_data :
              processed_data[i].cantidad
                  = QuantityOver(all_rows, {j \in DOMAIN all_rows : all_rows[j].cod_viejo = processed_data[i].cod_viejo})

\* C1's case: a key repeated with different quantities beside another key
C1_Witness ==
    /\ Consolidated
    /\ Len(processed_data) = 2
    /\ \E i, j \in DOMAIN all_rows :
          i # j /\ all_rows[i].cod_viejo = all_rows[j].cod_viejo /\ all_rows[i].cantidad # all_rows[j].cantidad

\* C2: the linea values are exactly 1..N, N the number of distinct cod_viejo of the
\* input (0 and no record for an empty input), one record for each distinct cod_viejo.
C2_Renumbering ==
    Consolidated =>
        /\ Len(processed_data) = Cardinality(InputKeys)
        /\ {processed_data[i].cod_viejo : i \in DOMAIN processed_data} = InputKeys
        /\ \A i \in DOMAIN processed_data : processed_data[i].linea = i

\* C2's case: three rows, two of them with one key
C2_Witness ==
    /\ Consolidated
    /\ Len(all_rows) = 3
    /\ Len(processed_data) = 2
    /\ processed_data[2].linea = 2

\* C3: the records are in ascending code-point order of cod_viejo, and the record with
\* linea k holds the k-th smallest key, whatever the order of the keys in the input.
C3_SortedByCodViejo ==
    Consolidated =>
        /\ \A i \in 1..(Len(processed_data) - 1) :
              KeyRank(processed_data[i].cod_viejo) < KeyRank(processed_data[i + 1].cod_viejo)
        /\ \A i \in DOMAIN processed_data :
              processed_data[i].linea
                  = 1 + Cardinality({k \in InputKeys : KeyRank(k) < KeyRank(processed_data[i].cod_viejo)})

\* C3's case: the keys come in descending order, a lower-case key before an upper-case one
C3_Witness ==
    /\ Consolidated
    /\ Len(all_rows) = 3
    /\ all_rows[1].cod_viejo = "a1" /\ all_rows[2].cod_viejo = "Z9" /\ all_rows[3].cod_viejo = "AB123"
    /\ Len(processed_data) = 3

\* C4: codigo, articulo, stock and almacen of a consolidated record are those of the
\* first input row with its cod_viejo.
C4_FirstSeenFields ==
    Consolidated =>
        \A i \in DOMAIN processed_data :
            LET first == all_rows[FirstIndex(processed_data[i].cod_viejo)]
            IN  /\ processed_data[i].codigo = first.codigo
                /\ processed_data[i].articulo = first.articulo
                /\ processed_data[i].stock = first.stock
                /\ processed_data[i].almacen = first.almacen

\* C4's case: a later row of the group differs from the first in stock and codigo
C4_Witness ==
    /\ Consolidated
    /\ \E i, j \in DOMAIN all_rows :
          /\ i < j
          /\ all_rows[i].cod_viejo = all_rows[j].cod_viejo
          /\ all_rows[i].stock # all_rows[j].stock
          /\ all_rows[i].codigo # all_rows[j].codigo

\* ------------------------------------------------------------------------
\* Properties of extract_picking_data and main (under Spec), stated on the
\* document's description
\* ------------------------------------------------------------------------

\* The 0-based index of the first packing page, or None
Boundary ==
    LET at == {i \in DOMAIN doc : doc[i].kind = "packing"}
    IN  IF at = {} THEN None ELSE <<(CHOOSE i \in at : \A j \in at : i <= j) - 1>>

\* The pages before the boundary: all of them when there is none
OrderPages == IF Boundary = None THEN DOMAIN doc ELSE 1..Boundary[1]

\* The lines of the first n pages that are not headers, each after a blank
RECURSIVE OrderContent(_)
OrderContent(n) ==
    IF n = 0 THEN ""
    ELSE OrderContent(n - 1)
            \o (IF doc[n].kind = "half" THEN " Codigo Cliente 77" ELSE "")
            \o (IF doc[n].cand = "none" THEN "" ELSE " " \o CandidateLine(n - 1, doc[n].cand))

\* extract_picking_data has returned
Extracted == pc \in {"returned", "process", "generate", "done"}

Rows == {all_rows[i] : i \in DOMAIN all_rows}

\* The order pages with a record line
CandidatePages == {i \in OrderPages : doc[i].cand # "none"}

CandidateAt(i) == Candidates[doc[i].cand]

\* A quantity text in hundredths: "12,50" is 1250, "12" is 1200
Hundredths(qty) == IF Contains(qty, ",") THEN ParseInt(Replace(qty, ",", "")) ELSE 100 * ParseInt(qty)

\* The record line of page i is among the rows with its number, code, quantity and stock
LineExtracted(i) ==
    \E r \in Rows :
        /\ r.linea_original = i
        /\ r.codigo = ItemCode(i - 1)
        /\ 100 * r.cantidad = Hundredths(CandidateAt(i).qty)
        /\ r.stock = FloatOf(StockStr(CandidateAt(i).stock))

\* C5: packing_start_page is the index of the first page with the marker phrases
\* (None without one); the text kept is that of the pages before it, and no row
\* comes from the boundary page or a later one.
C5_BoundaryFirstMarkerPage ==
    pc # "scan" =>
        /\ packing_start_page = Boundary
        /\ accumulated_text = OrderContent(Cardinality(OrderPages))
        /\ \A r \in Rows : r.linea_original \in CandidatePages

\* C5's case: an order page with a record line, then a packing page with one
C5_Witness ==
    /\ pc = "done"
    /\ packing_start_page = <<1>>
    /\ doc[2].cand # "none"
    /\ Len(all_rows) = 1

\* C6: a record line without its trailing RIESTRA is dropped (no row has its number,
\* code or quantity) and the well-formed lines around it are extracted unchanged.
C6_LineWithoutWarehouseDropped ==
    Extracted =>
        \A i \in CandidatePages :
            ~CandidateAt(i).term =>
                /\ \A r \in Rows : r.linea_original # i /\ r.codigo # ItemCode(i - 1)
                /\ \A j \in CandidatePages : CandidateAt(j).wellFormed => LineExtracted(j)

\* C7: a record line that cannot be turned into a row never makes extract_picking_data
\* raise, and the well-formed lines of the document are still extracted.
C7_BadCandidateAbsorbed ==
    /\ pc # "raised"
    /\ (Extracted /\ \A i \in CandidatePages : CandidateAt(i).term) =>
           \A j \in CandidatePages : CandidateAt(j).wellFormed => LineExtracted(j)

\* C8: a record line whose quantity is digits, a comma and two digits is extracted
\* with that decimal quantity; AB123 with "5" and with "3,50" consolidate to 8.50.
C8_DecimalQuantity ==
    /\ Extracted =>
           \A i \in CandidatePages : doc[i].cand = "decimal" => LineExtracted(i)
    /\ (pc = "done" /\ Len(doc) = 2 /\ doc[1] = [kind |-> "order", cand |-> "thousand"]
            /\ doc[2] = [kind |-> "order", cand |-> "decimal"]) =>
           /\ Len(output.picking) = 1
           /\ output.picking[1].cod_viejo = "AB123"
           /\ 100 * output.picking[1].cantidad = 850

\* Where the first upper-case letter followed by a lower-case one, past the first
\* character, starts in rem; 0 if nowhere
WordStart(rem) ==
    LET at == {p \in 2..(Len(rem) - 1) : Ch(rem, p) \in Upper /\ Ch(rem, p + 1) \in LowerAccent}
    IN  IF at = {} THEN 0 ELSE CHOOSE p \in at : \A q \in at : p <= q

\* C9: a remainder with an upper-case letter followed by a lower-case one past its
\* first character is cut there, nothing added, dropped or moved, both by
\* split_cod_viejo_articulo and in the row extracted from the record line.
C9_NaturalWordBoundary ==
    \A i \in CandidatePages :
        LET rem == CandidateAt(i).rem
            p == WordStart(rem)
        IN  (p > 0 /\ ~Contains(rem, " ")) =>
                /\ split_cod_viejo_articulo(rem, "") = <<SubSeq(rem, 1, p - 1), SubSeq(rem, p, Len(rem))>>
                /\ \A r \in Rows :
                      r.linea_original = i =>
                          r.cod_viejo = SubSeq(rem, 1, p - 1) /\ r.articulo = SubSeq(rem, p, Len(rem))

\* C10: once main delivers a document, the packing pages from the boundary on are
\* appended exactly when a boundary was detected; a boundary at page 0 leaves no row
\* and the run ends with the error before the decision.
C10_SpliceIffBoundary ==
    /\ (pc = "done" /\ output.kind # "error") =>
           /\ (output.kind = "merged") <=> (packing_start_page # None)
           /\ output.kind = "merged" =>
                  /\ Len(output.packing) = Len(pages) - packing_start_page[1]
                  /\ \A i \in DOMAIN output.packing : output.packing[i] = packing_start_page[1] + i - 1
           /\ output.kind # "merged" => output.packing = <<>>
    /\ packing_start_page = <<0>> =>
           /\ all_rows = <<>>
           /\ pc \notin {"process", "generate"}
           /\ output.kind \in {"none", "error"}

\* C10's case: rows extracted, a boundary at page 1, the merged document delivered
C10_Witness ==
    /\ pc = "done"
    /\ output.kind = "merged"
    /\ packing_start_page = <<1>>
    /\ output.packing = <<1>>
    /\ Len(output.picking) = 1

====
